---- MODULE Spec2Model ----
(***************************************************************************)
(* Model of the feature-encoding pipeline of src/features/build_features.py *)
(* (build_features and _map_binary_series).  A dataset is a sequence of     *)
(* named, typed columns; a column is a sequence of cells.  The pandas       *)
(* operations the code calls are modelled by what they do to the cells,     *)
(* the dtype and the column list.                                           *)
(***************************************************************************)
EXTENDS Integers, Sequences, FiniteSets, TLC

VARIABLES heap, df, pc, cat_cols, binary_cols, multi_cols, dummy_dtype, s, ret

vars == <<heap, df, pc, cat_cols, binary_cols, multi_cols, dummy_dtype, s, ret>>

(* ------------------------------ bounds --------------------------------- *)
\* rows of a dataset handed to build_features
MaxRows == 4
\* rows up to which every row permutation of the dataset is compared
MaxPermRows == 3
\* length of a series handed directly to _map_binary_series
MaxLen == 3

(* ------------------------------- cells --------------------------------- *)
\* A cell is text, a number, a boolean or missing (NaN).
Text(v) == [k |-> "text", s |-> v, n |-> 0]
Num(x) == [k |-> "num", s |-> "", n |-> x]
Bool(b) == [k |-> "bool", s |-> "", n |-> b]
NA == [k |-> "na", s |-> "", n |-> 0]

IsNA(c) == c.k = "na"

\* Python's str order (by code point) on the strings the model sorts.
CodepointOrder == <<"A", "B", "Female", "Male", "No", "Yes", "nan">>

Rank(v) == CHOOSE i \in 1..Len(CodepointOrder) : CodepointOrder[i] = v

StrLess(a, b) == Rank(a) < Rank(b)

\* sorted(values) for a set of strings
RECURSIVE Sorted(_)
Sorted(S) ==
    IF S = {} THEN <<>>
    ELSE LET m == CHOOSE x \in S : \A y \in S : ~StrLess(y, x)
         IN  <<m>> \o Sorted(S \ {m})

\* str(x) of one cell, as Series.astype(str) applies it to an object column
\* (pandas 1.x and 2.x): NaN becomes the text "nan".
StrOf(c) ==
    CASE c.k = "text" -> c.s
      [] c.k = "na"   -> "nan"
      [] c.k = "num"  -> ToString(c.n)
      [] c.k = "bool" -> IF c.n = 1 THEN "True" ELSE "False"

(* ------------------------------ columns -------------------------------- *)
Column(name, dtype, cells) == [name |-> name, dtype |-> dtype, cells |-> cells]

\* Series.astype(str)
AsTypeStr(col) ==
    Column(col.name, "object", [i \in 1..Len(col.cells) |-> Text(StrOf(col.cells[i]))])

\* Series.dropna()
DropNa(cells) == SelectSeq(cells, LAMBDA c : ~IsNA(c))

\* the distinct non-missing values of a series, as strings
StrValues(cells) == {StrOf(DropNa(cells)[i]) : i \in 1..Len(DropNa(cells))}

\* Series.dropna().nunique()
NUnique(col) == Cardinality({DropNa(col.cells)[i] : i \in 1..Len(DropNa(col.cells))})

\* Series.map(mapping).astype("Int64"): a value outside the mapping, or a
\* missing one, becomes <NA>.
MapCells(col, mapping) ==
    Column(col.name, "Int64",
           [i \in 1..Len(col.cells) |->
               IF col.cells[i].k = "text" /\ col.cells[i].s \in DOMAIN mapping
               THEN Num(mapping[col.cells[i].s])
               ELSE NA])

YesNoMapSwapped == ("No" :> 1) @@ ("Yes" :> 0)

YesNoMap == ("No" :> 0) @@ ("Yes" :> 1)

GenderMap == ("Female" :> 0) @@ ("Male" :> 1)

\* the two values in first-seen order instead of sorted order
RECURSIVE FirstSeen(_)
FirstSeen(cells) ==
    IF cells = <<>> THEN <<>>
    ELSE LET rest == FirstSeen(SelectSeq(Tail(cells), LAMBDA c : c # Head(cells)))
         IN  <<StrOf(Head(cells))>> \o rest

GenericMapFirstSeen(cells) ==
    LET vals == FirstSeen(DropNa(cells))
    IN  (vals[1] :> 0) @@ (vals[2] :> 1)

\* mapping = {sorted_vals[0]: 0, sorted_vals[1]: 1}
GenericMap(cells) ==
    LET sorted_vals == Sorted(StrValues(cells))
    IN  (sorted_vals[1] :> 0) @@ (sorted_vals[2] :> 1)

\* _map_binary_series(s)
MapBinarySeries(col) ==
    LET values == StrValues(col.cells)
    IN  IF values = {"Yes", "No"} THEN MapCells(col, YesNoMap)
        ELSE IF values = {"Male", "Female"} THEN MapCells(col, GenderMap)
        ELSE IF Cardinality(values) = 2
             THEN MapCells(AsTypeStr(col), GenericMap(col.cells))
        ELSE col

(* ----------------------------- dataframes ------------------------------ *)
target_col == "Churn"

Names(d) == [i \in 1..Len(d) |-> d[i].name]

NameSet(names) == {names[i] : i \in 1..Len(names)}

\* df[c]
Col(d, c) == d[CHOOSE i \in 1..Len(d) : d[i].name = c]

\* df[c] = series: the column keeps its label and position
SetCol(d, c, series) ==
    [i \in 1..Len(d) |->
        IF d[i].name = c THEN Column(c, series.dtype, series.cells) ELSE d[i]]

\* df.select_dtypes(include=dtypes).columns
SelectDtypes(d, dtypes) == Names(SelectSeq(d, LAMBDA col : col.dtype \in dtypes))

\* STEP 1 and STEP 2: cat_cols, binary_cols, multi_cols
CatCols(d) == SelectSeq(SelectDtypes(d, {"object"}), LAMBDA c : c # target_col)

BinaryCols(d) == SelectSeq(CatCols(d), LAMBDA c : NUnique(Col(d, c)) = 2)

MultiCols(d) == SelectSeq(CatCols(d), LAMBDA c : NUnique(Col(d, c)) > 2)

\* STEP 3: for c in binary_cols: df[c] = _map_binary_series(df[c].astype(str))
RECURSIVE EncodeBinary(_, _)
EncodeBinary(d, cols) ==
    IF cols = <<>> THEN d
    ELSE EncodeBinary(SetCol(d, Head(cols), MapBinarySeries(AsTypeStr(Col(d, Head(cols))))),
                      Tail(cols))

\* STEP 4: df[bool_cols] = df[bool_cols].astype(int)
ConvertBool(d) ==
    [i \in 1..Len(d) |->
        IF d[i].dtype = "bool"
        THEN Column(d[i].name, "int64",
                    [j \in 1..Len(d[i].cells) |-> Num(d[i].cells[j].n)])
        ELSE d[i]]

\* the categories of a column in first-seen order
CategoriesFirstSeen(col) == FirstSeen(DropNa(col.cells))

\* the categories get_dummies gives a column: its non-missing values, sorted
Categories(col) == Sorted(StrValues(col.cells))

\* the indicator columns of one source column with drop_first left out
DummiesKeepFirst(col, dtype) ==
    LET levels == Categories(col)
    IN  [j \in 1..Len(levels) |->
            Column(col.name \o "_" \o levels[j], dtype,
                   [r \in 1..Len(col.cells) |->
                       [k |-> IF dtype = "bool" THEN "bool" ELSE "num", s |-> "",
                        n |-> IF col.cells[r] = Text(levels[j]) THEN 1 ELSE 0]])]

\* the indicator columns of one source column, drop_first=True
Dummies(col, dtype) ==
    LET levels == Tail(Categories(col))
    IN  [j \in 1..Len(levels) |->
            Column(col.name \o "_" \o levels[j], dtype,
                   [r \in 1..Len(col.cells) |->
                       [k |-> IF dtype = "bool" THEN "bool" ELSE "num", s |-> "",
                        n |-> IF col.cells[r] = Text(levels[j]) THEN 1 ELSE 0]])]

RECURSIVE AllDummies(_, _, _)
AllDummies(d, cols, dtype) ==
    IF cols = <<>> THEN <<>>
    ELSE Dummies(Col(d, Head(cols)), dtype) \o AllDummies(d, Tail(cols), dtype)

\* pd.get_dummies(df, columns=cols, drop_first=True): the other columns in
\* their order, then the indicators of each encoded column in turn
GetDummies(d, cols, dtype) ==
    SelectSeq(d, LAMBDA col : col.name \notin NameSet(cols)) \o AllDummies(d, cols, dtype)

\* STEP 5: if multi_cols: df = pd.get_dummies(...)
OneHot(d, cols, dtype) == IF cols # <<>> THEN GetDummies(d, cols, dtype) ELSE d

\* pd.api.types.is_integer_dtype
IsIntegerDtype(dtype) == dtype \in {"int64", "Int64", "uint8"}

\* STEP 6: for c in binary_cols: df[c] = df[c].fillna(0).astype(int)
RECURSIVE Cleanup(_, _)
Cleanup(d, cols) ==
    IF cols = <<>> THEN d
    ELSE LET col == Col(d, Head(cols))
             filled == Column(col.name, "int64",
                              [j \in 1..Len(col.cells) |->
                                  IF IsNA(col.cells[j]) THEN Num(0) ELSE col.cells[j]])
         IN  Cleanup(IF IsIntegerDtype(col.dtype) THEN SetCol(d, Head(cols), filled) ELSE d,
                     Tail(cols))

\* build_features(df, target_col) as one function of its input
BuildFeatures(d, dtype) ==
    Cleanup(OneHot(ConvertBool(EncodeBinary(d, BinaryCols(d))), MultiCols(d), dtype),
            BinaryCols(d))

\* df.copy(): a new object with the same contents; the local name refers to it
DfCopyAlias(h, r) == [heap |-> h, ref |-> r]

DfCopy(h, r) == [heap |-> Append(h, h[r]), ref |-> Len(h) + 1]

(* ------------------------------- inputs -------------------------------- *)
Vocabulary == {"Yes", "No", "Male"}

MapVocabulary == {"Yes", "No", "Male", "Female", "A", "B"}

TextCells(vocabulary) == {Text(v) : v \in vocabulary} \cup {NA}

\* the target column as text, as numbers or as booleans
TargetColumns(n) ==
    { Column(target_col, "object", [i \in 1..n |-> Text(IF i % 2 = 1 THEN "Yes" ELSE "No")]),
      Column(target_col, "int64", [i \in 1..n |-> Num(i % 2)]),
      Column(target_col, "bool", [i \in 1..n |-> Bool(i % 2)]) }

\* a second text feature column: Yes, Male, Female, No, ... (expanded once it
\* has three rows) or Male, Female, Male, ... (binary once it has two rows)
SecondColumns(n) ==
    { Column("g", "object",
             [i \in 1..n |-> Text(<<"Yes", "Male", "Female", "No">>[((i - 1) % 4) + 1])]),
      Column("g", "object", [i \in 1..n |-> Text(<<"Male", "Female">>[((i - 1) % 2) + 1])]) }

\* a text feature column of any content, a second text feature column, a
\* boolean and a numeric feature column, and the target column
Datasets ==
    UNION { { << Column("f", "object", cells),
                 second,
                 Column("flag", "bool", [i \in 1..n |-> Bool(i % 2)]),
                 Column("f_No", "int64", [i \in 1..n |-> Num(i)]),
                 target >> :
              cells \in [1..n -> TextCells(Vocabulary)], second \in SecondColumns(n),
              target \in TargetColumns(n) } :
            n \in 1..MaxRows }

SeriesInputs ==
    UNION { { Column("s", "object", cells) : cells \in [1..n -> TextCells(MapVocabulary)] } :
            n \in 1..MaxLen }

NoSeries == Column("s", "object", <<>>)

(* --------------------------- build_features ---------------------------- *)
\* heap[1] is the caller's dataset; df is the object the local name df refers to.
Init ==
    /\ heap \in {<<d>> : d \in Datasets}
    /\ df = 1
    /\ pc = "copy"
    /\ cat_cols = <<>>
    /\ binary_cols = <<>>
    /\ multi_cols = <<>>
    \* get_dummies gives uint8 indicators before pandas 2.0 and bool ones since
    /\ dummy_dtype \in {"uint8", "bool"}
    /\ s = NoSeries
    /\ ret = NoSeries

\* df = df.copy()
Copy ==
    /\ pc = "copy"
    /\ heap' = DfCopy(heap, df).heap
    /\ df' = DfCopy(heap, df).ref
    /\ pc' = "classify"
    /\ UNCHANGED <<cat_cols, binary_cols, multi_cols, dummy_dtype, s, ret>>

\* STEP 1 and STEP 2
Classify ==
    /\ pc = "classify"
    /\ cat_cols' = CatCols(heap[df])
    /\ binary_cols' = BinaryCols(heap[df])
    /\ multi_cols' = MultiCols(heap[df])
    /\ pc' = "binary"
    /\ UNCHANGED <<heap, df, dummy_dtype, s, ret>>

\* STEP 3: the columns are assigned in the object df refers to
ApplyBinary ==
    /\ pc = "binary"
    /\ heap' = [heap EXCEPT ![df] = EncodeBinary(heap[df], binary_cols)]
    /\ pc' = "bool"
    /\ UNCHANGED <<df, cat_cols, binary_cols, multi_cols, dummy_dtype, s, ret>>

\* STEP 4
ApplyBool ==
    /\ pc = "bool"
    /\ heap' = [heap EXCEPT ![df] = ConvertBool(heap[df])]
    /\ pc' = "onehot"
    /\ UNCHANGED <<df, cat_cols, binary_cols, multi_cols, dummy_dtype, s, ret>>

\* STEP 5: get_dummies returns a new object, which df then names
ApplyOneHot ==
    /\ pc = "onehot"
    /\ IF multi_cols # <<>>
       THEN /\ heap' = Append(heap, OneHot(heap[df], multi_cols, dummy_dtype))
            /\ df' = Len(heap) + 1
       ELSE UNCHANGED <<heap, df>>
    /\ pc' = "cleanup"
    /\ UNCHANGED <<cat_cols, binary_cols, multi_cols, dummy_dtype, s, ret>>

\* STEP 6 and return df
ApplyCleanup ==
    /\ pc = "cleanup"
    /\ heap' = [heap EXCEPT ![df] = Cleanup(heap[df], binary_cols)]
    /\ pc' = "done"
    /\ UNCHANGED <<df, cat_cols, binary_cols, multi_cols, dummy_dtype, s, ret>>

Next == Copy \/ Classify \/ ApplyBinary \/ ApplyBool \/ ApplyOneHot \/ ApplyCleanup

Spec == Init /\ [][Next]_vars

(* -------------------- _map_binary_series called directly ---------------- *)
MapInit ==
    /\ heap = <<>>
    /\ df = 0
    /\ pc = "call"
    /\ cat_cols = <<>>
    /\ binary_cols = <<>>
    /\ multi_cols = <<>>
    /\ dummy_dtype = "uint8"
    /\ s \in SeriesInputs
    /\ ret = NoSeries

CallMapBinary ==
    /\ pc = "call"
    /\ ret' = MapBinarySeries(s)
    /\ pc' = "returned"
    /\ UNCHANGED <<heap, df, cat_cols, binary_cols, multi_cols, dummy_dtype, s>>

MapNext == CallMapBinary

MapSpec == MapInit /\ [][MapNext]_vars

\* the caller's dataset and the returned one
Input == heap[1]

Output == heap[df]

NumRows(d) == Len(d[1].cells)

(* ------------------------------- claims -------------------------------- *)
Done == pc = "done"

IsFeatureText(col) == col.dtype = "object" /\ col.name # target_col

HasMissing(col) == \E i \in 1..Len(col.cells) : IsNA(col.cells[i])

\* the code the binary mapping of a two-valued column gives the value v
BinaryCode(col, v) ==
    LET values == StrValues(col.cells)
    IN  IF values = {"Yes", "No"} THEN YesNoMap[v]
        ELSE IF values = {"Male", "Female"} THEN GenderMap[v]
        ELSE GenericMap(col.cells)[v]

\* C1: a non-target text column with exactly two distinct non-missing values
\* and a missing cell comes back with no missing entry: 0 where the input was
\* missing, the 0/1 code of the value elsewhere.
C1_MissingBecomesZero ==
    Done =>
        \A i \in 1..Len(Input) :
            (IsFeatureText(Input[i]) /\ NUnique(Input[i]) = 2 /\ HasMissing(Input[i])) =>
                LET out == Col(Output, Input[i].name)
                IN  \A r \in 1..NumRows(Input) :
                        out.cells[r] =
                            IF IsNA(Input[i].cells[r]) THEN Num(0)
                            ELSE Num(BinaryCode(Input[i], Input[i].cells[r].s))

\* C2: the target column comes back with the same name, cell type and values.
C2_TargetUntouched ==
    Done =>
        \A i \in 1..Len(Input) :
            Input[i].name = target_col =>
                \E j \in 1..Len(Output) : Output[j] = Input[i]

\* C3: every non-target column of the result holds numbers only: no text,
\* boolean or missing cell.
C3_AllNumeric ==
    Done =>
        \A j \in 1..Len(Output) :
            Output[j].name # target_col =>
                \A r \in 1..Len(Output[j].cells) : Output[j].cells[r].k = "num"

\* the dataset made of row r alone
RowOf(d, r) == [i \in 1..Len(d) |-> Column(d[i].name, d[i].dtype, <<d[i].cells[r]>>)]

IsKnownBinary(col) ==
    IsFeatureText(col) /\ StrValues(col.cells) \in {{"Yes", "No"}, {"Male", "Female"}}

\* C4: a value of a Yes/No or Male/Female column gets the same code from a
\* run on the batch and from a run on a single row of it: Yes 1, No 0,
\* Male 1, Female 0.
C4_ServingRowSameCode ==
    Done =>
        \A i \in 1..Len(Input) :
            IsKnownBinary(Input[i]) =>
                \A r \in 1..NumRows(Input) :
                    ~IsNA(Input[i].cells[r]) =>
                        LET code == Num(BinaryCode(Input[i], Input[i].cells[r].s))
                            serving == BuildFeatures(RowOf(Input, r), dummy_dtype)
                        IN  /\ Col(Output, Input[i].name).cells[r] = code
                            /\ Col(serving, Input[i].name).cells[1] = code

IsMulti(col) == IsFeatureText(col) /\ NUnique(col) > 2

\* the position in the input of the columns that are expanded
MultiPositions(d) == {i \in 1..Len(d) : IsMulti(d[i])}

\* the indicator columns of input column i in the result: they follow the
\* columns that are kept and the indicators of the expanded columns before i
RECURSIVE SumLevels(_, _)
SumLevels(d, P) ==
    IF P = {} THEN 0
    ELSE LET i == CHOOSE x \in P : TRUE
         IN  (NUnique(d[i]) - 1) + SumLevels(d, P \ {i})

IndicatorStart(d, i) ==
    (Len(d) - Cardinality(MultiPositions(d)))
        + SumLevels(d, {j \in MultiPositions(d) : j < i})

RowSum(out, d, i, r) ==
    LET first == IndicatorStart(d, i)
        RECURSIVE Acc(_)
        Acc(j) == IF j = 0 THEN 0 ELSE out[first + j].cells[r].n + Acc(j - 1)
    IN  Acc(NUnique(d[i]) - 1)

Smallest(col) == Sorted(StrValues(col.cells))[1]

\* k - 1 indicator columns replace every expanded column, one per category
\* except the smallest
ExpansionShape ==
    /\ Len(Output) = Len(Input) - Cardinality(MultiPositions(Input))
                        + SumLevels(Input, MultiPositions(Input))
    /\ \A i \in MultiPositions(Input) :
        LET cats == Sorted(StrValues(Input[i].cells))
        IN  \A j \in 1..(Len(cats) - 1) :
                /\ Output[IndicatorStart(Input, i) + j].name
                       = Input[i].name \o "_" \o cats[j + 1]
                /\ \A r \in 1..NumRows(Input) :
                       Output[IndicatorStart(Input, i) + j].cells[r].n \in {0, 1}

\* C5 as stated: the row sum of the indicators is at most 1, and 0 exactly
\* when the row's value is the dropped smallest category, so not 0 for a row
\* whose value was missing.
C5_SumZeroOnlyForSmallest ==
    Done =>
        /\ ExpansionShape
        /\ \A i \in MultiPositions(Input) : \A r \in 1..NumRows(Input) :
            /\ RowSum(Output, Input, i, r) <= 1
            /\ RowSum(Output, Input, i, r) = 0
                   <=> Input[i].cells[r] = Text(Smallest(Input[i]))

\* C5 amended: the row sum of the indicators is at most 1, and 0 exactly when
\* the row's value is the dropped smallest category or is missing.
C5_SumZeroForSmallestOrMissing ==
    Done =>
        /\ ExpansionShape
        /\ \A i \in MultiPositions(Input) : \A r \in 1..NumRows(Input) :
            /\ RowSum(Output, Input, i, r) <= 1
            /\ RowSum(Output, Input, i, r) = 0
                   <=> (Input[i].cells[r] = Text(Smallest(Input[i]))
                            \/ IsNA(Input[i].cells[r]))

C5_Witness ==
    /\ Done
    /\ \E i \in MultiPositions(Input) :
        /\ HasMissing(Input[i])
        /\ \E r \in 1..NumRows(Input) :
            Input[i].cells[r] = Text(Smallest(Input[i])) /\ r > 1
        /\ \E r \in 1..NumRows(Input) : RowSum(Output, Input, i, r) = 1

Returned == pc = "returned"

\* C6: when the non-missing values of the series are exactly Yes and No,
\* every No is mapped to 0 and every Yes to 1, and for exactly Male and
\* Female every Female to 0 and every Male to 1, whatever the order and the
\* frequencies.
C6_KnownVocabulary ==
    Returned =>
        /\ StrValues(s.cells) = {"Yes", "No"} =>
            \A i \in 1..Len(s.cells) :
                /\ s.cells[i] = Text("No") => ret.cells[i] = Num(0)
                /\ s.cells[i] = Text("Yes") => ret.cells[i] = Num(1)
        /\ StrValues(s.cells) = {"Male", "Female"} =>
            \A i \in 1..Len(s.cells) :
                /\ s.cells[i] = Text("Female") => ret.cells[i] = Num(0)
                /\ s.cells[i] = Text("Male") => ret.cells[i] = Num(1)

C6_Witness ==
    /\ Returned
    /\ s.cells \in { <<Text("Yes"), Text("No"), Text("No")>>,
                     <<Text("Male"), Text("Female"), Text("Female")>> }
    /\ ret.cells = <<Num(1), Num(0), Num(0)>>

IsGenericPair(values) ==
    /\ Cardinality(values) = 2
    /\ values # {"Yes", "No"}
    /\ values # {"Male", "Female"}

\* C7: for any other two-valued series the smaller value in string order is
\* mapped to 0 and the larger to 1, so the code of a value depends on the
\* pair of values alone.
C7_AlphabeticalFallback ==
    (Returned /\ IsGenericPair(StrValues(s.cells))) =>
        \A i \in 1..Len(s.cells) :
            ~IsNA(s.cells[i]) =>
                ret.cells[i] =
                    Num(IF \E w \in StrValues(s.cells) : StrLess(w, s.cells[i].s)
                        THEN 1 ELSE 0)

C7_Witness ==
    /\ Returned
    /\ s.cells = <<Text("B"), Text("A"), Text("B")>>
    /\ ret.cells = <<Num(1), Num(0), Num(1)>>

\* the rows of d in the order p[1], p[2], ...
PermuteRows(d, p) ==
    [i \in 1..Len(d) |->
        Column(d[i].name, d[i].dtype, [r \in 1..Len(d[i].cells) |-> d[i].cells[p[r]]])]

\* C8: encoding the rows in another order gives the same columns (names,
\* order, cell types) and the same rows in that other order.
C8_RowOrderIndependent ==
    (Done /\ NumRows(Input) <= MaxPermRows) =>
        \A p \in Permutations(1..NumRows(Input)) :
            BuildFeatures(PermuteRows(Input, p), dummy_dtype) = PermuteRows(Output, p)

C8_Witness ==
    /\ Done
    /\ NumRows(Input) = 3
    /\ \E i \in MultiPositions(Input) :
        /\ Input[i].name = "f"
        /\ StrLess(Input[i].cells[2].s, Input[i].cells[1].s)
    /\ Cardinality(MultiPositions(Input)) = 2
    /\ Len(Output) = Len(Input) + 2

\* C9: the input's column names being pairwise distinct (as in every dataset
\* of Datasets), the column names of the result are pairwise distinct: no
\* indicator is named like another indicator or like a column that is kept.
C9_NamesDistinct ==
    Done =>
        \A i, j \in 1..Len(Output) : Output[i].name = Output[j].name => i = j

\* C10: the caller's dataset is never rewritten, and the returned dataset has
\* as many rows as it.
C10_CallerUnchanged ==
    [][/\ heap'[1] = heap[1]
       /\ pc' = "done" => (df' # 1 /\ NumRows(heap'[df']) = NumRows(heap[1]))]_vars

C10_Witness == Done /\ df # 1 /\ Output # Input

====
